---- MODULE Spec2Model ----
(***************************************************************************)
(* A model of the FITS decoder of src/src/parsing.rs: the card reader      *)
(* (HeaderChunk::from_bytes), the value parser (Value::from_str), the      *)
(* header assembler (parse_header, extract_values), the data decoder       *)
(* (data::chuncks_to_data_f64) and the entry point read_fits_buffer.       *)
(*                                                                         *)
(* Bytes are integers 0..255; text is a sequence of bytes.  A Rust panic   *)
(* (unwrap on None/Err, a slice out of range, todo!) is the outcome        *)
(* [tag |-> "Panic"]: the decoder has no error type of its own.            *)
(***************************************************************************)
EXTENDS Integers, Sequences, FiniteSets, TLC

VARIABLES pc, buffer, pos, block, ci, raw_header, pi, header, hdr, rem, data, result, arg, ret

vars == <<pc, buffer, pos, block, ci, raw_header, pi, header, hdr, rem, data, result, arg, ret>>

(***************************************************************************)
(* definitions (src/src/lib.rs, mod definitions)                           *)
(***************************************************************************)
BLOCK_SIZE == 2880
HEADER_KEYWORD_SIZE == 80
HEADER_KEYWORD_NAME_SIZE == 8
HEADER_VALUE_INDICATOR_SIZE == 2

\* "= "
HEADER_VALUE_INDICATOR == <<61, 32>>
\* "END"
HEADER_END_KEYWORD == <<69, 78, 68>>
\* "HISTORY"
HEADER_HISTORY_KEYWORD == <<72, 73, 83, 84, 79, 82, 89>>
\* "COMMENT"
HEADER_COMMENT_KEYWORD == <<67, 79, 77, 77, 69, 78, 84>>
\* "CONTINUE"
HEADER_CONTINUE_KEYWORD == <<67, 79, 78, 84, 73, 78, 85, 69>>

\* The bytes the code compares with: b' ', b'\'', b'/', b'T', b'F', '.', '-', '+', '&'.
SPACE == 32
QUOTE == 39
SLASH == 47
CHAR_T == 84
CHAR_F == 70
DOT == 46
MINUS == 45
PLUS == 43
AMP == 38

(***************************************************************************)
(* Helpers on byte sequences                                               *)
(***************************************************************************)
SetMin(S) == CHOOSE x \in S : \A y \in S : x <= y
SetMax(S) == CHOOSE x \in S : \A y \in S : x >= y
Spaces(n) == [i \in 1..n |-> SPACE]
\* s left-justified in a field of n bytes, space-padded
Pad(s, n) == s \o Spaces(n - Len(s))

\* str::trim_matches(' '): leading and trailing spaces removed
trim_matches(s) ==
  LET keep == {i \in 1..Len(s) : s[i] # SPACE}
  IN IF keep = {} THEN <<>> ELSE SubSeq(s, SetMin(keep), SetMax(keep))

\* core::str::from_utf8: the length of the well-formed UTF-8 sequence that starts
\* at s[i], or 0 when there is none.
Cont(s, i, lo, hi) == i <= Len(s) /\ s[i] >= lo /\ s[i] <= hi
Utf8Width(s, i) ==
  LET b == s[i] IN
  CASE b < 128 -> 1
    [] b >= 194 /\ b <= 223 -> IF Cont(s, i + 1, 128, 191) THEN 2 ELSE 0
    [] b = 224 -> IF Cont(s, i + 1, 160, 191) /\ Cont(s, i + 2, 128, 191) THEN 3 ELSE 0
    [] b = 237 -> IF Cont(s, i + 1, 128, 159) /\ Cont(s, i + 2, 128, 191) THEN 3 ELSE 0
    [] b >= 225 /\ b <= 239 /\ b # 237 ->
         IF Cont(s, i + 1, 128, 191) /\ Cont(s, i + 2, 128, 191) THEN 3 ELSE 0
    [] b = 240 ->
         IF Cont(s, i + 1, 144, 191) /\ Cont(s, i + 2, 128, 191) /\ Cont(s, i + 3, 128, 191)
         THEN 4 ELSE 0
    [] b >= 241 /\ b <= 243 ->
         IF Cont(s, i + 1, 128, 191) /\ Cont(s, i + 2, 128, 191) /\ Cont(s, i + 3, 128, 191)
         THEN 4 ELSE 0
    [] b = 244 ->
         IF Cont(s, i + 1, 128, 143) /\ Cont(s, i + 2, 128, 191) /\ Cont(s, i + 3, 128, 191)
         THEN 4 ELSE 0
    [] OTHER -> 0

\* a continuation byte: one that starts no sequence
IsCont(b) == b >= 128 /\ b <= 191
\* the bytes of s from s[i] on are well-formed sequences laid end to end: s[i]
\* starts one, and each byte that starts one is followed by exactly the
\* continuation bytes of its sequence
Utf8From(s, i) ==
  /\ i <= Len(s) => ~IsCont(s[i])
  /\ \A k \in i..Len(s) :
       IsCont(s[k]) \/
       \A w \in {Utf8Width(s, k)} : w # 0 /\ ~(k + w <= Len(s) /\ IsCont(s[k + w]))

from_utf8_ok(s) == Utf8From(s, 1)

\* str::is_char_boundary(idx), idx a 0-based byte offset into valid UTF-8
is_char_boundary(s, idx) ==
  \/ idx = 0
  \/ idx = Len(s)
  \/ idx < Len(s) /\ ~(s[idx + 1] >= 128 /\ s[idx + 1] <= 191)

\* &s[from..to] with 0-based offsets: panics unless from <= to <= len and both
\* offsets are character boundaries
slice_ok(s, from, to) ==
  from <= to /\ to <= Len(s) /\ is_char_boundary(s, from) /\ is_char_boundary(s, to)

Panic == [tag |-> "Panic"]

(***************************************************************************)
(* Card reader                                                             *)
(***************************************************************************)
\* definitions::HEADER_END_KEYWORD_FULL: the constant that from_bytes compares the
\* record with.  tests::parse_from_bytes_test asserts that "END" followed by 77
\* spaces is classified End, which with the equality of line 66 fixes its value.
HEADER_END_KEYWORD_FULL == Pad(HEADER_END_KEYWORD, HEADER_KEYWORD_SIZE)

\* header::split_header_chunk
split_header_chunk(header_chunk) ==
  LET name_idx == HEADER_KEYWORD_NAME_SIZE
      sep_idx == name_idx + HEADER_VALUE_INDICATOR_SIZE
      n == Len(header_chunk)
  IN IF ~slice_ok(header_chunk, name_idx, sep_idx) THEN Panic
     ELSE IF SubSeq(header_chunk, name_idx + 1, sep_idx) = HEADER_VALUE_INDICATOR
          THEN [tag |-> "Split",
                kw |-> SubSeq(header_chunk, 1, name_idx),
                sep |-> SubSeq(header_chunk, name_idx + 1, sep_idx),
                value |-> SubSeq(header_chunk, sep_idx + 1, n)]
          ELSE [tag |-> "Split",
                kw |-> SubSeq(header_chunk, 1, name_idx),
                sep |-> <<>>,
                value |-> SubSeq(header_chunk, name_idx + 1, n)]

\* HeaderChunk::from_bytes
from_bytes(hc_bytes) ==
  IF hc_bytes = HEADER_END_KEYWORD_FULL THEN [tag |-> "End"]
  ELSE IF ~from_utf8_ok(hc_bytes) THEN [tag |-> "Utf8Error"]
  ELSE LET sp == split_header_chunk(hc_bytes) IN
       IF sp.tag = "Panic" THEN Panic
       ELSE LET kw == trim_matches(sp.kw)
                value == trim_matches(sp.value)
            IN CASE kw = HEADER_COMMENT_KEYWORD -> [tag |-> "Comment", value |-> value]
                 [] kw = HEADER_HISTORY_KEYWORD -> [tag |-> "History", value |-> value]
                 [] OTHER -> [tag |-> "RawValue", kw |-> kw, value |-> value]

(***************************************************************************)
(* Value parser                                                            *)
(***************************************************************************)
Undefined == [tag |-> "Undefined"]
Integer(n) == [tag |-> "Integer", n |-> n]
Str(s) == [tag |-> "Str", s |-> s]
Float(f) == [tag |-> "Float", f |-> f]
Boolean(b) == [tag |-> "Boolean", b |-> b]

\* the elements of s at the positions of idx, in order
RECURSIVE Pick(_, _, _)
Pick(s, idx, k) ==
  IF k > Len(s) THEN <<>>
  ELSE (IF k \in idx THEN <<s[k]>> ELSE <<>>) \o Pick(s, idx, k + 1)

\* header::extract_str, first loop: the 0-based offset i at which the scan stops
RECURSIVE extract_str_scan(_, _)
extract_str_scan(input, i) ==
  IF ~(i < Len(input)) THEN i
  ELSE IF input[i + 1] = QUOTE
       THEN IF i + 1 < Len(input) /\ input[i + 2] = QUOTE
            THEN extract_str_scan(input, i + 2)
            ELSE i
       ELSE extract_str_scan(input, i + 1)

\* header::extract_str, second loop: a byte is pushed unless it is a quote that
\* follows a quote (prev starts as b' ')
extract_str_push(extract) ==
  LET prev(k) == IF k = 1 THEN SPACE ELSE extract[k - 1]
  IN Pick(extract, {k \in 1..Len(extract) : ~(extract[k] = QUOTE /\ prev(k) = QUOTE)}, 1)

\* header::extract_str: the bytes pushed to output (input[0] is the opening quote)
extract_str(input) ==
  LET i == extract_str_scan(input, 1)
  IN extract_str_push(SubSeq(input, 2, i))

\* char::is_numeric on an ASCII byte
is_numeric(c) == c >= 48 /\ c <= 57

\* the offset of the first byte of s that is in set, Len(s) + 1 when there is none
FirstIn(s, set) ==
  LET hit == {i \in 1..Len(s) : s[i] \in set}
  IN IF hit = {} THEN Len(s) + 1 ELSE SetMin(hit)

RECURSIVE DigitsValue(_)
DigitsValue(d) ==
  IF d = <<>> THEN 0 ELSE 10 * DigitsValue(SubSeq(d, 1, Len(d) - 1)) + (d[Len(d)] - 48)

AllDigits(s) == \A i \in 1..Len(s) : is_numeric(s[i])
IsSign(c) == c = PLUS \/ c = MINUS

\* "9223372036854775807", and the same with a final 8: the largest magnitudes of i64
I64_MAX_DIGITS == <<57, 50, 50, 51, 51, 55, 50, 48, 51, 54, 56, 53, 52, 55, 55, 53, 56, 48, 55>>
I64_MIN_DIGITS == <<57, 50, 50, 51, 51, 55, 50, 48, 51, 54, 56, 53, 52, 55, 55, 53, 56, 48, 56>>

\* a and b digit strings of the same length: a <= b
RECURSIVE DigitsLeq(_, _)
DigitsLeq(a, b) ==
  IF a = <<>> THEN TRUE
  ELSE IF a[1] # b[1] THEN a[1] < b[1]
  ELSE DigitsLeq(Tail(a), Tail(b))

StripZeros(d) ==
  LET nz == {i \in 1..Len(d) : d[i] # 48}
  IN IF nz = {} THEN <<>> ELSE SubSeq(d, SetMin(nz), Len(d))

\* str::parse::<i64>: an optional sign, then one or more ASCII digits, within i64
parse_i64(tok) ==
  LET signed == tok # <<>> /\ IsSign(tok[1]) /\ Len(tok) > 1
      neg == signed /\ tok[1] = MINUS
      digits == IF signed THEN Tail(tok) ELSE tok
      sig == StripZeros(digits)
      lim == IF neg THEN I64_MIN_DIGITS ELSE I64_MAX_DIGITS
  IN IF digits = <<>> \/ ~AllDigits(digits) THEN [ok |-> FALSE]
     ELSE IF Len(sig) > Len(lim) \/ (Len(sig) = Len(lim) /\ ~DigitsLeq(sig, lim))
          THEN [ok |-> FALSE]
     ELSE [ok |-> TRUE, n |-> IF neg THEN 0 - DigitsValue(sig) ELSE DigitsValue(sig)]

\* str::parse::<f64> of a token that holds a '.': an optional sign, digits with one
\* '.', at least one digit, and an optional exponent (e or E, optional sign, one or
\* more digits).  The number is kept in decimal: sign, the digits of the mantissa
\* and the power of ten that scales them.
parse_f64(tok) ==
  LET signed == tok # <<>> /\ IsSign(tok[1])
      neg == signed /\ tok[1] = MINUS
      body == IF signed THEN Tail(tok) ELSE tok
      e == FirstIn(body, {69, 101})
      mant == SubSeq(body, 1, e - 1)
      hasExp == e <= Len(body)
      expo == SubSeq(body, e + 1, Len(body))
      expSigned == expo # <<>> /\ IsSign(expo[1])
      expDigits == IF expSigned THEN Tail(expo) ELSE expo
      d == FirstIn(mant, {DOT})
      int == SubSeq(mant, 1, d - 1)
      frac == SubSeq(mant, d + 1, Len(mant))
      mantOk == AllDigits(int) /\ AllDigits(frac) /\ Len(int) + Len(frac) > 0
      expOk == ~hasExp \/ (expDigits # <<>> /\ AllDigits(expDigits))
      expVal == IF ~hasExp THEN 0
                ELSE IF expSigned /\ expo[1] = MINUS THEN 0 - DigitsValue(expDigits)
                ELSE DigitsValue(expDigits)
  IN IF mantOk /\ expOk
     THEN [ok |-> TRUE,
           f |-> [neg |-> neg, digits |-> int \o frac, exp10 |-> expVal - Len(frac)]]
     ELSE [ok |-> FALSE]

\* Value::from_str, lines 169-186: the numeric rules.  parse().unwrap() panics on a
\* token that is no number.
from_str_number(value) ==
  LET cut == FirstIn(value, {SPACE, SLASH})
      pre_comment == SubSeq(value, 1, cut - 1)
  IN IF \E i \in 1..Len(pre_comment) : pre_comment[i] = DOT
     THEN LET num == parse_f64(pre_comment)
          IN IF num.ok THEN Float(num.f) ELSE Panic
     ELSE IF \A i \in 1..Len(pre_comment) :
               is_numeric(pre_comment[i]) \/ pre_comment[i] = MINUS \/ pre_comment[i] = PLUS
          THEN LET num == parse_i64(pre_comment)
               IN IF num.ok THEN Integer(num.n) ELSE Panic
     ELSE Undefined

\* Value::from_str, lines 159-163: String::from_utf8(extracted).unwrap()
from_str_quoted(value) ==
  LET extracted == extract_str(value)
  IN IF from_utf8_ok(extracted) THEN Str(extracted) ELSE Panic

\* Value::from_str with the Boolean rule taken for a field that is exactly "T" or
\* "F": the numeric rules then see every longer field that starts with T or F.
from_str_bool_whole_field(value) ==
  IF value = <<>> THEN Undefined
  ELSE IF value[1] = SLASH THEN Undefined
  ELSE IF value[1] = QUOTE THEN from_str_quoted(value)
  ELSE IF value = <<CHAR_T>> \/ value = <<CHAR_F>> THEN Boolean(value[1] = CHAR_T)
  ELSE from_str_number(value)

\* Value::from_str
from_str(value) ==
  IF value = <<>> THEN Undefined
  ELSE IF value[1] = SLASH THEN Undefined
  ELSE IF value[1] = QUOTE THEN from_str_quoted(value)
  ELSE IF value[1] = CHAR_T \/ value[1] = CHAR_F THEN Boolean(value[1] = CHAR_T)
  ELSE from_str_number(value)

(***************************************************************************)
(* Header assembler                                                        *)
(***************************************************************************)
KwValue(kw, v, c) == [tag |-> "Value", kw |-> kw, value |-> v, comment |-> c]
KwContinue(kw, v, c) == [tag |-> "Continue", kw |-> kw, value |-> v, comment |-> c]
KwHistory(t) == [tag |-> "History", text |-> t]
KwComment(t) == [tag |-> "Comment", text |-> t]

\* HeaderChunk::parse
parse(chunk) ==
  CASE chunk.tag = "End" -> Panic
    [] chunk.tag = "History" -> KwHistory(chunk.value)
    [] chunk.tag = "Comment" -> KwComment(chunk.value)
    [] chunk.tag = "RawValue" ->
         LET val == from_str(chunk.value)
         IN IF val.tag = "Panic" THEN Panic ELSE KwValue(chunk.kw, val, <<>>)

ends_with_amp(s) == s # <<>> /\ s[Len(s)] = AMP
\* String::pop: the last character removed, nothing done to an empty string
pop(s) == IF s = <<>> THEN s ELSE SubSeq(s, 1, Len(s) - 1)

\* parse_header without line 355 (s.pop()): the '&' stays in the merged string
merge_keyword_amp_kept(list, parsed) ==
  IF parsed.tag = "Value" /\ parsed.kw = HEADER_CONTINUE_KEYWORD /\ parsed.value.tag = "Str"
  THEN IF list = <<>>
       THEN <<KwContinue(HEADER_CONTINUE_KEYWORD, parsed.value, parsed.comment)>>
       ELSE LET prev == list[Len(list)]
                rest == SubSeq(list, 1, Len(list) - 1)
            IN IF prev.tag = "Value" /\ prev.value.tag = "Str" /\ ends_with_amp(prev.value.s)
               THEN Append(rest, KwValue(prev.kw,
                                         Str(prev.value.s \o parsed.value.s),
                                         pop(prev.comment) \o parsed.comment))
               ELSE Append(Append(rest, prev),
                           KwContinue(HEADER_CONTINUE_KEYWORD, parsed.value, parsed.comment))
  ELSE Append(list, parsed)

\* parse_header without line 365 (header.push(prev)): the popped Keyword is lost
merge_keyword_prev_lost(list, parsed) ==
  IF parsed.tag = "Value" /\ parsed.kw = HEADER_CONTINUE_KEYWORD /\ parsed.value.tag = "Str"
  THEN IF list = <<>>
       THEN <<KwContinue(HEADER_CONTINUE_KEYWORD, parsed.value, parsed.comment)>>
       ELSE LET prev == list[Len(list)]
                rest == SubSeq(list, 1, Len(list) - 1)
            IN IF prev.tag = "Value" /\ prev.value.tag = "Str" /\ ends_with_amp(prev.value.s)
               THEN Append(rest, KwValue(prev.kw,
                                         Str(pop(prev.value.s) \o parsed.value.s),
                                         pop(prev.comment) \o parsed.comment))
               ELSE Append(rest,
                           KwContinue(HEADER_CONTINUE_KEYWORD, parsed.value, parsed.comment))
  ELSE Append(list, parsed)

\* parse_header with the '&' taken off the continuation string as well before it
\* is pushed (line 357)
merge_keyword_amp_stripped(list, parsed) ==
  IF parsed.tag = "Value" /\ parsed.kw = HEADER_CONTINUE_KEYWORD /\ parsed.value.tag = "Str"
  THEN IF list = <<>>
       THEN <<KwContinue(HEADER_CONTINUE_KEYWORD, parsed.value, parsed.comment)>>
       ELSE LET prev == list[Len(list)]
                rest == SubSeq(list, 1, Len(list) - 1)
            IN IF prev.tag = "Value" /\ prev.value.tag = "Str" /\ ends_with_amp(prev.value.s)
               THEN Append(rest, KwValue(prev.kw,
                                         Str(pop(prev.value.s) \o
                                             (IF ends_with_amp(parsed.value.s)
                                              THEN pop(parsed.value.s) ELSE parsed.value.s)),
                                         pop(prev.comment) \o parsed.comment))
               ELSE Append(Append(rest, prev),
                           KwContinue(HEADER_CONTINUE_KEYWORD, parsed.value, parsed.comment))
  ELSE Append(list, parsed)

\* parse_header with insert(0, ..) in place of the push of line 380: the Keyword is
\* put in front of the list
merge_keyword_in_front(list, parsed) ==
  IF parsed.tag = "Value" /\ parsed.kw = HEADER_CONTINUE_KEYWORD /\ parsed.value.tag = "Str"
  THEN IF list = <<>>
       THEN <<KwContinue(HEADER_CONTINUE_KEYWORD, parsed.value, parsed.comment)>>
       ELSE LET prev == list[Len(list)]
                rest == SubSeq(list, 1, Len(list) - 1)
            IN IF prev.tag = "Value" /\ prev.value.tag = "Str" /\ ends_with_amp(prev.value.s)
               THEN Append(rest, KwValue(prev.kw,
                                         Str(pop(prev.value.s) \o parsed.value.s),
                                         pop(prev.comment) \o parsed.comment))
               ELSE Append(Append(rest, prev),
                           KwContinue(HEADER_CONTINUE_KEYWORD, parsed.value, parsed.comment))
  ELSE <<parsed>> \o list

\* header::parse_header, lines 346-380: one parsed Keyword put on the list
merge_keyword(list, parsed) ==
  IF parsed.tag = "Value" /\ parsed.kw = HEADER_CONTINUE_KEYWORD /\ parsed.value.tag = "Str"
  THEN IF list = <<>>
       THEN <<KwContinue(HEADER_CONTINUE_KEYWORD, parsed.value, parsed.comment)>>
       ELSE LET prev == list[Len(list)]
                rest == SubSeq(list, 1, Len(list) - 1)
            IN IF prev.tag = "Value" /\ prev.value.tag = "Str" /\ ends_with_amp(prev.value.s)
               THEN Append(rest, KwValue(prev.kw,
                                         Str(pop(prev.value.s) \o parsed.value.s),
                                         pop(prev.comment) \o parsed.comment))
               ELSE Append(Append(rest, prev),
                           KwContinue(HEADER_CONTINUE_KEYWORD, parsed.value, parsed.comment))
  ELSE Append(list, parsed)

\* find_value without the return of line 391: the loop runs on and the last
\* keyword of the name is the one found
find_value_last(list, key) ==
  LET hit == {i \in 1..Len(list) : list[i].tag = "Value" /\ list[i].kw = key}
  IN IF hit = {} THEN [tag |-> "None"] ELSE [tag |-> "Some", v |-> list[SetMax(hit)].value]

\* header::find_value
find_value(list, key) ==
  LET hit == {i \in 1..Len(list) : list[i].tag = "Value" /\ list[i].kw = key}
  IN IF hit = {} THEN [tag |-> "None"] ELSE [tag |-> "Some", v |-> list[SetMin(hit)].value]

\* format!("{}", n) for an integer
RECURSIVE NatDigits(_)
NatDigits(n) == IF n < 10 THEN <<48 + n>> ELSE Append(NatDigits(n \div 10), 48 + (n % 10))
ToDigits(n) == IF n < 0 THEN <<MINUS>> \o NatDigits(0 - n) ELSE NatDigits(n)

\* "SIMPLE", "NAXIS", "BITPIX"
KEY_SIMPLE == <<83, 73, 77, 80, 76, 69>>
KEY_NAXIS == <<78, 65, 88, 73, 83>>
KEY_BITPIX == <<66, 73, 84, 80, 73, 88>>

\* i as usize: the 64 bits of the i64 read as an unsigned number.  A number below
\* 2^63 is written [wrapped |-> FALSE, n |-> the number]; a negative i becomes
\* 2^64 - |i|, written [wrapped |-> TRUE, n |-> |i|].
as_usize(i) ==
  IF i >= 0 THEN [wrapped |-> FALSE, n |-> i] ELSE [wrapped |-> TRUE, n |-> 0 - i]

\* header::extract_values, lines 430-440: the axes NAXIS1..NAXISn, or Panic
RECURSIVE extract_axes(_, _, _)
extract_axes(list, i, naxis) ==
  IF i > naxis THEN [tag |-> "Ok", axes |-> <<>>]
  ELSE LET value_axis == find_value(list, KEY_NAXIS \o ToDigits(i))
       IN IF value_axis.tag = "None" THEN Panic
          ELSE IF value_axis.v.tag # "Integer" THEN Panic
          ELSE LET more == extract_axes(list, i + 1, naxis)
               IN IF more.tag = "Panic" THEN Panic
                  ELSE [tag |-> "Ok", axes |-> <<as_usize(value_axis.v.n)>> \o more.axes]

\* extract_values with SIMPLE read the way NAXIS and BITPIX are: unwrap() in place
\* of unwrap_or (line 404), a panic in place of false (line 408)
extract_values_simple_required(list) ==
  LET value_simple == find_value(list, KEY_SIMPLE)
      value_naxis == find_value(list, KEY_NAXIS)
      value_bitpix == find_value(list, KEY_BITPIX)
  IN IF value_simple.tag = "None" THEN Panic
     ELSE IF value_simple.v.tag # "Boolean" THEN Panic
     ELSE IF value_naxis.tag = "None" THEN Panic
     ELSE IF value_naxis.v.tag # "Integer" THEN Panic
     ELSE IF value_bitpix.tag = "None" THEN Panic
     ELSE IF value_bitpix.v.tag # "Integer" THEN Panic
     ELSE IF as_usize(value_naxis.v.n).wrapped THEN Panic
     ELSE LET ax == extract_axes(list, 1, as_usize(value_naxis.v.n).n)
          IN IF ax.tag = "Panic" THEN Panic
             ELSE [tag |-> "Ok", simple |-> value_simple.v.b,
                   naxis |-> as_usize(value_naxis.v.n).n,
                   axes |-> ax.axes, bitpix |-> value_bitpix.v.n]

\* header::extract_values.  A negative NAXIS becomes a usize above isize::MAX and
\* Vec::with_capacity panics on it; naxis is below 2^63 otherwise and kept as the
\* number.
extract_values(list) ==
  LET value_simple == find_value(list, KEY_SIMPLE)
      simple == IF value_simple.tag = "Some" /\ value_simple.v.tag = "Boolean"
                THEN value_simple.v.b ELSE FALSE
      value_naxis == find_value(list, KEY_NAXIS)
      value_bitpix == find_value(list, KEY_BITPIX)
  IN IF value_naxis.tag = "None" THEN Panic
     ELSE IF value_naxis.v.tag # "Integer" THEN Panic
     ELSE IF value_bitpix.tag = "None" THEN Panic
     ELSE IF value_bitpix.v.tag # "Integer" THEN Panic
     ELSE IF as_usize(value_naxis.v.n).wrapped THEN Panic
     ELSE LET ax == extract_axes(list, 1, as_usize(value_naxis.v.n).n)
          IN IF ax.tag = "Panic" THEN Panic
             ELSE [tag |-> "Ok", simple |-> simple, naxis |-> as_usize(value_naxis.v.n).n,
                   axes |-> ax.axes, bitpix |-> value_bitpix.v.n]

\* The bounds of the validated header fields: naxis in 0..=NAXIS_MAX, bitpix one of
\* the six codes.
NAXIS_MAX == 999
BITPIX_CODES == {8, 16, 32, 64, -32, -64}

\* Header::from_keyword_list (crate::header is not among the sources): the fields of
\* extract_values, validated; None when a field is out of range.
from_keyword_list(list) ==
  LET ev == extract_values(list)
  IN IF ev.tag = "Panic" THEN Panic
     ELSE IF ev.naxis > NAXIS_MAX \/ ev.bitpix \notin BITPIX_CODES THEN [tag |-> "None"]
     ELSE [tag |-> "Some",
           h |-> [keywords |-> list, simple |-> ev.simple, naxis |-> ev.naxis,
                  axes |-> ev.axes, bitpix |-> ev.bitpix]]

(***************************************************************************)
(* Data decoder                                                            *)
(***************************************************************************)
\* Iterator::product over the axes (1 for no axes); the extents of the headers
\* that are decoded are all below 2^63
RECURSIVE product(_)
product(axes) == IF axes = <<>> THEN 1 ELSE axes[1].n * product(Tail(axes))

abs(i) == IF i < 0 THEN 0 - i ELSE i
min(a, b) == IF a < b THEN a ELSE b

\* f64::from_be_bytes: the 64 bits of the number, most significant byte first, kept
\* as four 16-bit words
from_be_bytes(bts) ==
  <<bts[1] * 256 + bts[2], bts[3] * 256 + bts[4], bts[5] * 256 + bts[6], bts[7] * 256 + bts[8]>>

\* data::chuncks_to_data_f64, lines 563-569: the numbers pushed from one block,
\* block.chunks_exact(8) zipped with 0..read / 8
block_to_f64(blk, read) ==
  [k \in 1..min(Len(blk) \div 8, read \div 8) |-> from_be_bytes(SubSeq(blk, 8 * k - 7, 8 * k))]

\* Chunks::next on buffer.chunks(BLOCK_SIZE) with p bytes consumed
has_next(buf, p) == p < Len(buf)
next_block(buf, p) == SubSeq(buf, p + 1, min(p + BLOCK_SIZE, Len(buf)))
next_pos(buf, p) == min(p + BLOCK_SIZE, Len(buf))

(***************************************************************************)
(* Inputs: the buffers that are decoded                                    *)
(***************************************************************************)
MaxNaxis == 2
MaxExtent == 2
MaxDataBlocks == 2

\* one 80-byte card: the name field, the indicator field, the value/comment field
Card(name, ind, rest) ==
  Pad(name, HEADER_KEYWORD_NAME_SIZE) \o ind \o
  Pad(rest, HEADER_KEYWORD_SIZE - HEADER_KEYWORD_NAME_SIZE - HEADER_VALUE_INDICATOR_SIZE)
ValueCard(name, text) == Card(name, HEADER_VALUE_INDICATOR, text)

RECURSIVE Concat(_)
Concat(ss) == IF ss = <<>> THEN <<>> ELSE ss[1] \o Concat(Tail(ss))

\* s followed by blank cards up to the next block boundary
PadToBlock(s) == s \o Spaces((BLOCK_SIZE - (Len(s) % BLOCK_SIZE)) % BLOCK_SIZE)

\* the extents an axis may have: small ones, and one that makes the data unit
\* longer than a block
Extents == (1..MaxExtent) \cup {BLOCK_SIZE \div 8 + 1}
\* the number of elements of an image of shape sh
RECURSIVE Volume(_)
Volume(sh) == IF sh = <<>> THEN 1 ELSE sh[1] * Volume(Tail(sh))
Shapes ==
  {sh \in UNION {[1..n -> Extents] : n \in 0..MaxNaxis} :
     Volume(sh) * 8 <= MaxDataBlocks * BLOCK_SIZE}
BitpixChoices == {-64, 16}

\* the mandatory cards of a header with the given BITPIX and axes
MandatoryCards(bitpix, sh) ==
  <<ValueCard(KEY_SIMPLE, <<CHAR_T>>),
    ValueCard(KEY_BITPIX, ToDigits(bitpix)),
    ValueCard(KEY_NAXIS, ToDigits(Len(sh)))>> \o
  [i \in 1..Len(sh) |-> ValueCard(KEY_NAXIS \o ToDigits(i), ToDigits(sh[i]))]

\* the header section: the cards, the End card unless it is left out, blank cards
\* up to the block boundary
HeaderBytes(cards, withEnd) ==
  PadToBlock(Concat(cards) \o (IF withEnd THEN HEADER_END_KEYWORD_FULL ELSE <<>>))

\* the bytes of a data section of n bytes
DataByte(i) == (i * 7 + 63) % 256
DataBytes(n) == [i \in 1..n |-> DataByte(i)]

\* the number of data bytes the header declares
ExpectedBytes(bitpix, sh) == (Volume(sh) * abs(bitpix)) \div 8

\* the lengths of the data section tried for a header that declares e bytes: none,
\* one element short, one byte short, exact, one byte more, padded to the block
DataLens(e) ==
  {n \in {0, e - 8, e - 1, e, e + 1, e + ((BLOCK_SIZE - (e % BLOCK_SIZE)) % BLOCK_SIZE)} : n >= 0}

Running == [tag |-> "Running"]
NoHeader == [tag |-> "None"]

\* the state of a decode that has not started, and of the variables a run does not use
Idle ==
  /\ pos = 0 /\ block = <<>> /\ ci = 0 /\ raw_header = <<>> /\ pi = 1
  /\ header = <<>> /\ hdr = NoHeader /\ rem = 0 /\ data = <<>> /\ result = Running

Init ==
  /\ pc = "header_block"
  /\ \E bitpix \in BitpixChoices, sh \in Shapes, withEnd \in BOOLEAN :
       \E n \in DataLens(ExpectedBytes(bitpix, sh)) :
         buffer = HeaderBytes(MandatoryCards(bitpix, sh), withEnd) \o DataBytes(n)
  /\ Idle
  /\ arg = <<>> /\ ret = Running

(***************************************************************************)
(* read_fits_buffer, step by step                                          *)
(***************************************************************************)
Finish(r) ==
  /\ result' = r
  /\ pc' = "done"

\* header::parse_header, line 326: blocks.next().unwrap()
NextHeaderBlock ==
  /\ pc = "header_block"
  /\ IF has_next(buffer, pos)
     THEN /\ block' = next_block(buffer, pos)
          /\ pos' = next_pos(buffer, pos)
          /\ ci' = 0
          /\ pc' = "header_chunk"
          /\ UNCHANGED result
     ELSE /\ Finish(Panic)
          /\ UNCHANGED <<block, pos, ci>>
  /\ UNCHANGED <<buffer, raw_header, pi, header, hdr, rem, data, arg, ret>>

\* the loop over block.chunks(80) without the break of line 332: the records after
\* the End card are read to the end of the block
ReadHeaderChunk_no_break ==
  /\ pc = "header_chunk"
  /\ IF ci * HEADER_KEYWORD_SIZE >= Len(block)
     THEN /\ pc' = IF \E j \in 0..(ci - 1) :
                       SubSeq(block, j * HEADER_KEYWORD_SIZE + 1,
                              min((j + 1) * HEADER_KEYWORD_SIZE, Len(block))) = HEADER_END_KEYWORD_FULL
                   THEN "parse" ELSE "header_block"
          /\ UNCHANGED <<ci, raw_header, result>>
     ELSE LET header_chunk_bytes ==
                SubSeq(block, ci * HEADER_KEYWORD_SIZE + 1,
                       min((ci + 1) * HEADER_KEYWORD_SIZE, Len(block)))
              chunk == from_bytes(header_chunk_bytes)
          IN CASE chunk.tag \in {"Panic", "Utf8Error"} ->
                    /\ Finish(Panic)
                    /\ UNCHANGED <<ci, raw_header>>
               [] chunk.tag = "End" ->
                    /\ ci' = ci + 1
                    /\ UNCHANGED <<pc, raw_header, result>>
               [] OTHER ->
                    /\ raw_header' = Append(raw_header, chunk)
                    /\ ci' = ci + 1
                    /\ UNCHANGED <<pc, result>>
  /\ UNCHANGED <<buffer, pos, block, pi, header, hdr, rem, data, arg, ret>>

\* header::parse_header, lines 328-336: one turn of the loop over block.chunks(80)
ReadHeaderChunk ==
  /\ pc = "header_chunk"
  /\ IF ci * HEADER_KEYWORD_SIZE >= Len(block)
     THEN /\ pc' = "header_block"
          /\ UNCHANGED <<ci, raw_header, result>>
     ELSE LET header_chunk_bytes ==
                SubSeq(block, ci * HEADER_KEYWORD_SIZE + 1,
                       min((ci + 1) * HEADER_KEYWORD_SIZE, Len(block)))
              chunk == from_bytes(header_chunk_bytes)
          IN CASE chunk.tag \in {"Panic", "Utf8Error"} ->
                    /\ Finish(Panic)
                    /\ UNCHANGED <<ci, raw_header>>
               [] chunk.tag = "End" ->
                    /\ pc' = "parse"
                    /\ UNCHANGED <<ci, raw_header, result>>
               [] OTHER ->
                    /\ raw_header' = Append(raw_header, chunk)
                    /\ ci' = ci + 1
                    /\ UNCHANGED <<pc, result>>
  /\ UNCHANGED <<buffer, pos, block, pi, header, hdr, rem, data, arg, ret>>

\* header::parse_header, lines 342-381: one turn of the loop over raw_header
ParseChunk ==
  /\ pc = "parse"
  /\ pi <= Len(raw_header)
  /\ LET parsed == parse(raw_header[pi])
     IN IF parsed.tag = "Panic"
        THEN /\ Finish(Panic)
             /\ UNCHANGED <<pi, header>>
        ELSE /\ header' = merge_keyword(header, parsed)
             /\ pi' = pi + 1
             /\ UNCHANGED <<pc, result>>
  /\ UNCHANGED <<buffer, pos, block, ci, raw_header, hdr, rem, data, arg, ret>>

\* read_fits_buffer, lines 581-604: the Header built from the keyword list, the
\* byte count, and the choice of the decoder
AssembleHeader ==
  /\ pc = "parse"
  /\ pi > Len(raw_header)
  /\ LET h == from_keyword_list(header)
     IN CASE h.tag = "Panic" ->
               /\ Finish(Panic)
               /\ UNCHANGED <<hdr, rem>>
          [] h.tag = "None" ->
               /\ Finish([tag |-> "None"])
               /\ UNCHANGED <<hdr, rem>>
          [] OTHER ->
               LET bitpix == h.h.bitpix
                   bytes == (product(h.h.axes) * abs(bitpix)) \div 8
               IN /\ hdr' = h
                  /\ IF bitpix = -64
                     THEN /\ rem' = bytes
                          /\ pc' = "data"
                          /\ UNCHANGED result
                     ELSE /\ Finish([tag |-> "Some", header |-> h.h, data |-> [tag |-> "None"]])
                          /\ UNCHANGED rem
  /\ UNCHANGED <<buffer, pos, block, ci, raw_header, pi, header, data, arg, ret>>

\* the data loop without line 570 (rem -= read)
ReadDataBlock_rem_kept ==
  /\ pc = "data"
  /\ rem > 0
  /\ IF has_next(buffer, pos)
     THEN LET blk == next_block(buffer, pos)
              read == min(rem, BLOCK_SIZE)
          IN /\ block' = blk
             /\ pos' = next_pos(buffer, pos)
             /\ data' = data \o block_to_f64(blk, read)
             /\ rem' = rem
             /\ UNCHANGED <<pc, result>>
     ELSE /\ Finish(Panic)
          /\ UNCHANGED <<block, pos, data, rem>>
  /\ UNCHANGED <<buffer, ci, raw_header, pi, header, hdr, arg, ret>>

\* data::chuncks_to_data_f64, lines 561-571: one turn of the loop
ReadDataBlock ==
  /\ pc = "data"
  /\ rem > 0
  /\ IF has_next(buffer, pos)
     THEN LET blk == next_block(buffer, pos)
              read == min(rem, BLOCK_SIZE)
          IN /\ block' = blk
             /\ pos' = next_pos(buffer, pos)
             /\ data' = data \o block_to_f64(blk, read)
             /\ rem' = rem - read
             /\ UNCHANGED <<pc, result>>
     ELSE /\ Finish(Panic)
          /\ UNCHANGED <<block, pos, data, rem>>
  /\ UNCHANGED <<buffer, ci, raw_header, pi, header, hdr, arg, ret>>

\* data::chuncks_to_data_f64, line 572, and read_fits_buffer, lines 593-600
ReturnData ==
  /\ pc = "data"
  /\ rem = 0
  /\ Finish([tag |-> "Some", header |-> hdr.h, data |-> [tag |-> "Some", v |-> data]])
  /\ UNCHANGED <<buffer, pos, block, ci, raw_header, pi, header, hdr, rem, data, arg, ret>>

Next ==
  \/ NextHeaderBlock
  \/ ReadHeaderChunk
  \/ ParseChunk
  \/ AssembleHeader
  \/ ReadDataBlock
  \/ ReturnData

Spec == Init /\ [][Next]_vars

\* the shapes of the buffers decode is run to its end on: one axis, with a data unit
\* of one element, of one block, of a block and one element, of MaxDataBlocks blocks
FairShapes ==
  {<<e>> : e \in {1, BLOCK_SIZE \div 8, BLOCK_SIZE \div 8 + 1, MaxDataBlocks * (BLOCK_SIZE \div 8)}}

\* the buffers decode is run to its end on: an image of doubles with each length of
\* the data section, an image of another element type, a header without End card
InitFair ==
  /\ pc = "header_block"
  /\ \/ \E sh \in FairShapes : \E n \in DataLens(ExpectedBytes(-64, sh)) :
          buffer = HeaderBytes(MandatoryCards(-64, sh), TRUE) \o DataBytes(n)
     \/ \E n \in {0, BLOCK_SIZE} :
          buffer = HeaderBytes(MandatoryCards(16, <<1>>), TRUE) \o DataBytes(n)
     \/ \E n \in {0, BLOCK_SIZE} :
          buffer = HeaderBytes(MandatoryCards(-64, <<1>>), FALSE) \o DataBytes(n)
  /\ Idle
  /\ arg = <<>> /\ ret = Running

\* decode is one synchronous call: a step that can be taken is taken
SpecFair == InitFair /\ [][Next]_vars /\ WF_vars(Next)

(***************************************************************************)
(* The card reader alone: HeaderChunk::from_bytes applied to one record    *)
(***************************************************************************)
\* the name fields, indicator fields and value fields the records are made of.
\* <<195, 169>> is a two-byte character, 169 alone a continuation byte, 255 a byte
\* that no UTF-8 text holds.
NameFields ==
  {HEADER_END_KEYWORD, HEADER_COMMENT_KEYWORD, HEADER_HISTORY_KEYWORD,
   HEADER_CONTINUE_KEYWORD, KEY_SIMPLE, <<>>, <<SPACE>> \o HEADER_END_KEYWORD,
   <<65, 66, 67, 68, 69, 70, 71, 195>>}
IndFields == {HEADER_VALUE_INDICATOR, <<SPACE, SPACE>>, <<61, 88>>, <<169, SPACE>>}
RestFields ==
  {<<>>, <<CHAR_T>>, <<QUOTE, 105, 116, QUOTE, QUOTE, 115, QUOTE, SPACE, SLASH, SPACE, 99>>,
   <<61, SPACE, 49>>, <<255>>, <<195, 169>>, <<SPACE, SPACE, CHAR_T, SPACE, SLASH, SPACE, 99>>}
Records == {Card(n, i, r) : n \in NameFields, i \in IndFields, r \in RestFields}

InitCard ==
  /\ pc = "from_bytes"
  /\ arg \in Records
  /\ ret = Running
  /\ buffer = <<>>
  /\ Idle

CallFromBytes ==
  /\ pc = "from_bytes"
  /\ ret' = from_bytes(arg)
  /\ pc' = "returned"
  /\ UNCHANGED <<buffer, pos, block, ci, raw_header, pi, header, hdr, rem, data, result, arg>>

NextCard == CallFromBytes

SpecCard == InitCard /\ [][NextCard]_vars

(***************************************************************************)
(* The value parser alone: Value::from_str applied to one trimmed field    *)
(***************************************************************************)
MaxFieldLen == 4
MaxStrLen == 6

SeqsUpTo(S, n) == UNION {[1..k -> S] : k \in 0..n}

\* ' / T F 1 . - + ( A, and the bytes that may follow the first one
FirstChars == {QUOTE, SLASH, CHAR_T, CHAR_F, 49, DOT, MINUS, PLUS, 40, 65}
TailChars == {QUOTE, SLASH, SPACE, CHAR_T, 49, DOT, MINUS}
\* the bytes of a quoted field: ' / space A, and the two bytes of a two-byte character
StrChars == {QUOTE, SLASH, SPACE, 65, 195, 169}

\* the fields: short ones over all the bytes, longer ones that open a string, and
\* the digits of ten times the largest i64; a field is a str (UTF-8) and is trimmed
ValueFields ==
  {f \in {<<>>}
      \cup {<<c>> \o t : c \in FirstChars, t \in SeqsUpTo(TailChars, MaxFieldLen - 1)}
      \cup {<<QUOTE>> \o t : t \in SeqsUpTo(StrChars, MaxStrLen - 1)}
      \cup {Append(I64_MAX_DIGITS, 48)} :
     f = trim_matches(f) /\ from_utf8_ok(f)}

InitValue ==
  /\ pc = "from_str"
  /\ arg \in ValueFields
  /\ ret = Running
  /\ buffer = <<>>
  /\ Idle

CallFromStr ==
  /\ pc = "from_str"
  /\ ret' = from_str(arg)
  /\ pc' = "returned"
  /\ UNCHANGED <<buffer, pos, block, ci, raw_header, pi, header, hdr, rem, data, result, arg>>

NextValue == CallFromStr

SpecValue == InitValue /\ [][NextValue]_vars

(***************************************************************************)
(* The decoder fed with headers that hold continuation cards               *)
(***************************************************************************)
MaxCards == 3

\* "OBJECT", "COUNT"
KEY_OBJECT == <<79, 66, 74, 69, 67, 84>>
KEY_COUNT == <<67, 79, 85, 78, 84>>
\* 'abc&'  'xy'  'def'  'gh&'
TEXT_ABC_AMP == <<QUOTE, 97, 98, 99, AMP, QUOTE>>
TEXT_XY == <<QUOTE, 120, 121, QUOTE>>
TEXT_DEF == <<QUOTE, 100, 101, 102, QUOTE>>
TEXT_GH_AMP == <<QUOTE, 103, 104, AMP, QUOTE>>

\* the cards put before the mandatory ones: a string keyword that asks for a
\* continuation and one that does not, continuation cards (no value indicator, the
\* string from column 11 on) that end and that go on, an integer keyword, a comment
CardMenu ==
  {ValueCard(KEY_OBJECT, TEXT_ABC_AMP),
   ValueCard(KEY_OBJECT, TEXT_XY),
   Card(HEADER_CONTINUE_KEYWORD, <<SPACE, SPACE>>, TEXT_DEF),
   Card(HEADER_CONTINUE_KEYWORD, <<SPACE, SPACE>>, TEXT_GH_AMP),
   ValueCard(KEY_COUNT, <<52, 50>>),
   Card(HEADER_COMMENT_KEYWORD, <<SPACE, SPACE>>, <<110, 111, 116, 101>>)}

\* the records put after the End card, inside its block: a value card, a second End
\* card, both, or blank cards only
AfterEnd ==
  {<<>>,
   <<ValueCard(KEY_COUNT, <<52, 50>>)>>,
   <<HEADER_END_KEYWORD_FULL>>,
   <<ValueCard(KEY_COUNT, <<52, 50>>), HEADER_END_KEYWORD_FULL>>}
\* the numbers of comment cards put before the four mandatory cards of a
\* one-axis header: none, as many as make the End card the first record of the
\* second block, and a whole block of them
CardsPerBlock == BLOCK_SIZE \div HEADER_KEYWORD_SIZE
Fillers == {0, CardsPerBlock - 4, CardsPerBlock}
CommentCard == Card(HEADER_COMMENT_KEYWORD, <<SPACE, SPACE>>, <<110, 111, 116, 101>>)

\* a one-element image follows the cards, so that the header is assembled and the
\* data unit read; or a header of one block or two, with records after its End
\* card, and a two-element image
InitHeader ==
  /\ pc = "header_block"
  /\ \/ \E cards \in SeqsUpTo(CardMenu, MaxCards) :
          buffer = HeaderBytes(cards \o MandatoryCards(-64, <<1>>), TRUE) \o DataBytes(BLOCK_SIZE)
     \/ \E fill \in Fillers, after \in AfterEnd :
          buffer = PadToBlock(Concat([k \in 1..fill |-> CommentCard] \o MandatoryCards(-64, <<2>>))
                              \o HEADER_END_KEYWORD_FULL \o Concat(after))
                   \o DataBytes(BLOCK_SIZE)
  /\ Idle
  /\ arg = <<>> /\ ret = Running

SpecHeader == InitHeader /\ [][Next]_vars

(***************************************************************************)
(* The field extraction alone: header::extract_values applied to one       *)
(* keyword list                                                            *)
(***************************************************************************)
\* "NAXISi"
KEY_NAXISn(i) == KEY_NAXIS \o ToDigits(i)

\* what a list may hold under one name: nothing, or one Keyword with one of the
\* values.  Str("T") is a string where a Boolean or an Integer is expected.
WrongType == Str(<<CHAR_T>>)
Optional(name, values) == {<<>>} \cup {<<KwValue(name, v, <<>>)>> : v \in values}
SimpleSlot == Optional(KEY_SIMPLE, {Boolean(TRUE), Boolean(FALSE), WrongType})
BitpixSlot == Optional(KEY_BITPIX, {Integer(-64), Integer(16), Integer(7), WrongType})
NaxisSlot ==
  Optional(KEY_NAXIS, {Integer(n) : n \in (-1..MaxNaxis) \cup {NAXIS_MAX + 1}} \cup {Boolean(TRUE)})
AxisSlot(i) == Optional(KEY_NAXISn(i), {Integer(-1), Integer(0), Integer(2), Integer(3), WrongType})
\* the keywords NAXIS1.. of a list, one choice per axis, the last axis first: the
\* order of the cards is not the order of the axes
AxisSlots ==
  {Concat([k \in 1..MaxNaxis |-> f[MaxNaxis + 1 - k]]) :
     f \in {g \in [1..MaxNaxis -> UNION {AxisSlot(i) : i \in 1..MaxNaxis}] :
              \A i \in 1..MaxNaxis : g[i] \in AxisSlot(i)}}
\* a keyword put in front of the others, so that a name occurs twice, and a
\* Continue-kind Keyword, which has no name to look up
FrontSlot ==
  {<<>>,
   <<KwValue(KEY_SIMPLE, Boolean(FALSE), <<>>)>>,
   <<KwValue(KEY_BITPIX, Integer(16), <<>>)>>,
   <<KwValue(KEY_NAXIS, Integer(1), <<>>)>>,
   <<KwValue(KEY_NAXISn(1), Integer(1), <<>>)>>,
   <<KwContinue(HEADER_CONTINUE_KEYWORD, Str(KEY_NAXIS), <<>>)>>}

KeywordLists ==
  {f \o s \o b \o n \o a :
     f \in FrontSlot, s \in SimpleSlot, b \in BitpixSlot, n \in NaxisSlot, a \in AxisSlots}

InitExtract ==
  /\ pc = "extract_values"
  /\ arg \in KeywordLists
  /\ ret = Running
  /\ buffer = <<>>
  /\ Idle

CallExtractValues ==
  /\ pc = "extract_values"
  /\ ret' = extract_values(arg)
  /\ pc' = "returned"
  /\ UNCHANGED <<buffer, pos, block, ci, raw_header, pi, header, hdr, rem, data, result, arg>>

NextExtract == CallExtractValues

SpecExtract == InitExtract /\ [][NextExtract]_vars

(***************************************************************************)
(* What the buffer holds, read off the bytes                               *)
(***************************************************************************)
\* the offsets of the End cards of the buffer (cards start at multiples of 80, and
\* a block is 36 cards)
EndOffsets(buf) ==
  {o \in {HEADER_KEYWORD_SIZE * k : k \in 0..(Len(buf) \div HEADER_KEYWORD_SIZE)} :
     /\ o + HEADER_KEYWORD_SIZE <= Len(buf)
     /\ SubSeq(buf, o + 1, o + HEADER_KEYWORD_SIZE) = HEADER_END_KEYWORD_FULL}
HasEnd(buf) == EndOffsets(buf) # {}
\* the offset of the first byte after the block of the first End card
DataStart(buf) ==
  min(((SetMin(EndOffsets(buf)) \div BLOCK_SIZE) + 1) * BLOCK_SIZE, Len(buf))
DataAvailable(buf) == Len(buf) - DataStart(buf)

Done == pc = "done"
\* decode returned a Header with a data buffer
ReturnedData == Done /\ result.tag = "Some" /\ result.data.tag = "Some"
\* decode returned a Header and no data
ReturnedNoData == Done /\ result.tag = "Some" /\ result.data.tag = "None"
\* decode returned its failure value (None, the one failure its return type has)
ReturnedFailure == Done /\ result.tag = "None"
\* the header was assembled, and is this one
HeaderIs(P(_)) == hdr.tag = "Some" /\ P(hdr.h)

(***************************************************************************)
(* The claims                                                              *)
(***************************************************************************)

\* C1: whenever decode succeeds and returns a data buffer, the number of elements
\* of the buffer is the product of the header's axes, whatever the shape and the
\* length of the buffer (a last block shorter than 2880 bytes included).
C1_DataLengthIsProduct ==
  ReturnedData => Len(result.data.v) = product(result.header.axes)

\* C2: a file that is valid but for its last data byte, which is removed, holds
\* fewer data bytes than product(axes) * abs(bitpix) / 8: decode fails, and returns
\* no data buffer shorter than product(axes).
C2_TruncatedDataFails ==
  (/\ Done
   /\ HasEnd(buffer)
   /\ HeaderIs(LAMBDA h : /\ h.naxis > 0
                          /\ h.bitpix = -64
                          /\ DataAvailable(buffer) + 1 = (product(h.axes) * abs(h.bitpix)) \div 8))
  => ReturnedFailure

\* C3: with NAXIS = 0 decode succeeds and returns the header with no data unit: no
\* block after the End card's block is read, no element is decoded, no error is
\* raised, whatever follows the header.
C3_NoAxesNoData ==
  (Done /\ HasEnd(buffer) /\ HeaderIs(LAMBDA h : h.naxis = 0))
  => /\ ReturnedNoData
     /\ pos = DataStart(buffer)
     /\ data = <<>>

\* C4: when the header scan reaches the end of the buffer without an End card,
\* decode fails (MalformedHeader); it does not abort.
C4_NoEndFails ==
  (Done /\ ~HasEnd(buffer)) => ReturnedFailure

\* C5: an 80-byte record is classified End if and only if it is the End literal
\* ("END" and 77 spaces); every other 80-byte record, one named END with other
\* bytes after the name included, is classified Commentary or Value.
C5_EndIffLiteral ==
  (pc = "returned" /\ Len(arg) = HEADER_KEYWORD_SIZE)
  => /\ ret.tag = "End" <=> arg = HEADER_END_KEYWORD_FULL
     /\ arg # HEADER_END_KEYWORD_FULL => ret.tag \in {"Comment", "History", "RawValue"}

IsAscii(s) == \A i \in 1..Len(s) : s[i] < 128
IndicatorOf(rec) ==
  SubSeq(rec, HEADER_KEYWORD_NAME_SIZE + 1,
         HEADER_KEYWORD_NAME_SIZE + HEADER_VALUE_INDICATOR_SIZE)

\* C6: a record that is not the End literal is a Value card if and only if its
\* bytes [8,10) are "= ": without the indicator it is Commentary whatever its name,
\* with it it is a Value whatever its name (COMMENT and HISTORY included).
\* Stated for the records of ASCII text.
C6_ValueIffIndicator ==
  (pc = "returned" /\ IsAscii(arg) /\ arg # HEADER_END_KEYWORD_FULL)
  => /\ ret.tag = "RawValue" <=> IndicatorOf(arg) = HEADER_VALUE_INDICATOR
     /\ ret.tag \in {"Comment", "History"} <=> IndicatorOf(arg) # HEADER_VALUE_INDICATOR

\* C7: the rules of the value parser apply in order, the first match winning: an
\* empty field is Undefined, a field that starts with '/' is Undefined, one that
\* starts with a quote is a Str, one that starts with T or F is a Boolean (true
\* iff T), whatever follows the first byte and before any numeric rule.
C7_RulesInOrder ==
  pc = "returned"
  => /\ arg = <<>> => ret = Undefined
     /\ (arg # <<>> /\ arg[1] = SLASH) => ret = Undefined
     /\ (arg # <<>> /\ arg[1] = QUOTE) => ret.tag = "Str"
     /\ (arg # <<>> /\ arg[1] \in {CHAR_T, CHAR_F}) => ret = Boolean(arg[1] = CHAR_T)

\* C7, its case: a field "T1..." (a digit follows the T) was parsed, to Boolean(true)
C7_Witness ==
  /\ pc = "returned"
  /\ Len(arg) > 1 /\ arg[1] = CHAR_T /\ arg[2] = 49
  /\ ret = Boolean(TRUE)

\* the string a quoted field denotes: from the byte after the opening quote, two
\* quotes in a row stand for one quote, a single quote closes the string
RECURSIVE QuotedText(_, _)
QuotedText(f, i) ==
  IF i > Len(f) THEN <<>>
  ELSE IF f[i] = QUOTE
       THEN IF i + 1 <= Len(f) /\ f[i + 1] = QUOTE
            THEN <<QUOTE>> \o QuotedText(f, i + 2)
            ELSE <<>>
       ELSE <<f[i]>> \o QuotedText(f, i + 1)
\* the field has a closing quote
RECURSIVE IsClosed(_, _)
IsClosed(f, i) ==
  IF i > Len(f) THEN FALSE
  ELSE IF f[i] = QUOTE
       THEN IF i + 1 <= Len(f) /\ f[i + 1] = QUOTE THEN IsClosed(f, i + 2) ELSE TRUE
       ELSE IsClosed(f, i + 1)

\* C8: for a field that starts with a quote, the Str is the text between the
\* opening quote and the first unescaped quote, every pair of quotes in it replaced
\* by one quote (n pairs in a row give n quotes); text after the closing quote does
\* not change the value.
C8_StrUnescaped ==
  (pc = "returned" /\ arg # <<>> /\ arg[1] = QUOTE /\ IsClosed(arg, 2))
  => ret = Str(QuotedText(arg, 2))

\* the value token: the text before the first space or '/'
TokenOf(f) == SubSeq(f, 1, FirstIn(f, {SPACE, SLASH}) - 1)

\* C9: for a field that matches none of the first four rules, the result is a Float
\* when the token holds a '.', else an Integer when every byte of the token is a
\* digit, '+' or '-', else Undefined.
C9_NumericRules ==
  (pc = "returned" /\ arg # <<>> /\ arg[1] \notin {SLASH, QUOTE, CHAR_T, CHAR_F})
  => LET tok == TokenOf(arg)
     IN ret.tag = (IF \E i \in 1..Len(tok) : tok[i] = DOT THEN "Float"
                   ELSE IF \A i \in 1..Len(tok) : is_numeric(tok[i]) \/ IsSign(tok[i])
                        THEN "Integer"
                   ELSE "Undefined")

\* C10: a field that starts with '(' (a complex-number literal) is reported as an
\* outcome of its own: it is not Undefined, not a number, not any other Value, and
\* the parse does not abort.
C10_ComplexReported ==
  (pc = "returned" /\ arg # <<>> /\ arg[1] = 40)
  => ret.tag \notin {"Undefined", "Integer", "Float", "Str", "Boolean", "Panic"}

\* a card named CONTINUE whose value field is a string
IsContinuation(chunk) ==
  /\ chunk.tag = "RawValue"
  /\ chunk.kw = HEADER_CONTINUE_KEYWORD
  /\ from_str(chunk.value).tag = "Str"
\* the loop over the cards is about to process a continuation card
AtContinuation == pc = "parse" /\ pi <= Len(raw_header) /\ IsContinuation(raw_header[pi])
\* the most recently assembled Keyword is string-valued and its string ends in '&'
Qualifies(list) ==
  /\ list # <<>>
  /\ list[Len(list)].tag = "Value"
  /\ list[Len(list)].value.tag = "Str"
  /\ list[Len(list)].value.s # <<>>
  /\ list[Len(list)].value.s[Len(list[Len(list)].value.s)] = AMP

\* C11: when a continuation card with a string value is processed and the most
\* recently assembled Keyword is string-valued with a string ending in '&', the list
\* keeps its length, every earlier Keyword stays, and the last Keyword keeps its name
\* and gets the string: its old string without the trailing '&', then the string of
\* the continuation card.
C11_MergeInPlace ==
  [][(AtContinuation /\ Qualifies(header)) =>
       LET n == Len(header)
           prev == header[n]
           text == from_str(raw_header[pi].value).s
       IN /\ Len(header') = n
          /\ \A k \in 1..(n - 1) : header'[k] = header[k]
          /\ header'[n].tag = "Value"
          /\ header'[n].kw = prev.kw
          /\ header'[n].value = Str(SubSeq(prev.value.s, 1, Len(prev.value.s) - 1) \o text)
    ]_vars
\* OBJECT = 'abc&' followed by CONTINUE 'def' has just been merged to "abcdef"
C11_Witness ==
  /\ pc = "parse"
  /\ pi > 2
  /\ raw_header[pi - 2] = [tag |-> "RawValue", kw |-> KEY_OBJECT, value |-> TEXT_ABC_AMP]
  /\ raw_header[pi - 1] = [tag |-> "RawValue", kw |-> HEADER_CONTINUE_KEYWORD, value |-> TEXT_DEF]
  /\ Len(header) < pi - 1
  /\ header[Len(header)] = KwValue(KEY_OBJECT, Str(<<97, 98, 99, 100, 101, 102>>), <<>>)

\* C12: when a continuation card with a string value is processed and the most
\* recently assembled Keyword does not qualify (no Keyword yet, not a string, or a
\* string that does not end in '&'), the list grows by one Continue-kind Keyword
\* holding the card's string, every earlier Keyword stays as it was, and the loop
\* goes on to the next card without a failure.
C12_StandaloneContinue ==
  [][(AtContinuation /\ ~Qualifies(header)) =>
       LET n == Len(header)
       IN /\ Len(header') = n + 1
          /\ \A k \in 1..n : header'[k] = header[k]
          /\ header'[n + 1].tag = "Continue"
          /\ header'[n + 1].value = from_str(raw_header[pi].value)
          /\ pc' = "parse" /\ pi' = pi + 1 /\ result' = Running
    ]_vars
\* CONTINUE 'def' as the first card, OBJECT = 'xy', CONTINUE 'def' again: both
\* continuation cards stand alone in the Header of a decode that went through
C12_Witness ==
  /\ ReturnedData
  /\ Len(result.header.keywords) >= 3
  /\ SubSeq(result.header.keywords, 1, 3) =
       <<KwContinue(HEADER_CONTINUE_KEYWORD, Str(<<100, 101, 102>>), <<>>),
         KwValue(KEY_OBJECT, Str(<<120, 121>>), <<>>),
         KwContinue(HEADER_CONTINUE_KEYWORD, Str(<<100, 101, 102>>), <<>>)>>

\* extract_values returned the fields / aborted / returned an error value (its
\* return type has none)
Extracted == pc = "returned" /\ ret.tag = "Ok"
Aborted == pc = "returned" /\ ret.tag = "Panic"
ReturnedError == pc = "returned" /\ ret.tag = "Err"

\* the places of the keywords of the list that have the name, and the value of the
\* earliest one
Named(list, name) == {k \in 1..Len(list) : list[k].tag = "Value" /\ list[k].kw = name}
Has(list, name) == Named(list, name) # {}
First(list, name) == list[SetMin(Named(list, name))].value
\* the name is absent from the list, or its value is not an Integer
NoInteger(list, name) == ~Has(list, name) \/ First(list, name).tag # "Integer"

\* C13: header assembly fails with InvalidMandatoryKeyword, a returned error, and
\* produces no Header whenever NAXIS is absent, is not an Integer, or is an Integer
\* below 0 or above 999.
C13_NaxisChecked ==
  (/\ pc = "returned"
   /\ \/ NoInteger(arg, KEY_NAXIS)
      \/ First(arg, KEY_NAXIS).n \notin 0..NAXIS_MAX)
  => ReturnedError

\* C14: header assembly fails with a fatal error, one of the failures that are
\* returned, and produces no Header whenever BITPIX is absent, is not an Integer, or
\* is an Integer that is none of 8, 16, 32, 64, -32, -64.
C14_BitpixChecked ==
  (/\ pc = "returned"
   /\ \/ NoInteger(arg, KEY_BITPIX)
      \/ First(arg, KEY_BITPIX).n \notin BITPIX_CODES)
  => ReturnedError

\* the axes i of 1..NAXIS whose keyword NAXISi is absent or not an Integer
BadAxes(list) ==
  {i \in 1..First(list, KEY_NAXIS).n : NoInteger(list, KEY_NAXISn(i))}

\* C15: with NAXIS and BITPIX in order, if for some i of 1..NAXIS the keyword NAXISi
\* is absent or not an Integer, header assembly fails with InvalidMandatoryKeyword:
\* an error that is returned, not an abort, and that names the first such NAXISi.
C15_AxisChecked ==
  (/\ pc = "returned"
   /\ ~NoInteger(arg, KEY_NAXIS)
   /\ First(arg, KEY_NAXIS).n \in 0..NAXIS_MAX
   /\ ~NoInteger(arg, KEY_BITPIX)
   /\ First(arg, KEY_BITPIX).n \in BITPIX_CODES
   /\ BadAxes(arg) # {})
  => (ReturnedError /\ ret.key = KEY_NAXISn(SetMin(BadAxes(arg))))

\* the usize u is the number n
UsizeIs(u, n) == ~u.wrapped /\ u.n = n

\* C16: in every Header that is produced, axes has naxis elements, and its i-th
\* element (counted from 1) is the Integer value of the keyword NAXISi, for every
\* i of 1..naxis.
C16_AxesInOrder ==
  Extracted =>
    /\ Len(ret.axes) = ret.naxis
    /\ \A i \in 1..ret.naxis : UsizeIs(ret.axes[i], First(arg, KEY_NAXISn(i)).n)

\* C17: every element of axes of a produced Header is at least 1, and comes from
\* an NAXISi that is at least 1: a zero or negative NAXISi is not in axes, neither
\* as itself nor as another number.
C17_PositiveExtents ==
  Extracted =>
    \A i \in 1..Len(ret.axes) :
      /\ First(arg, KEY_NAXISn(i)).n >= 1
      /\ ret.axes[i].wrapped \/ ret.axes[i].n >= 1

\* NAXIS, BITPIX or one of NAXIS1..NAXISn is absent or not an Integer, or NAXIS is
\* negative: what extract_values cannot go on with
MandatoryTrouble(list) ==
  \/ NoInteger(list, KEY_NAXIS)
  \/ NoInteger(list, KEY_BITPIX)
  \/ First(list, KEY_NAXIS).n < 0
  \/ BadAxes(list) # {}

\* C18: the simple field of what is extracted is true iff the first keyword named
\* SIMPLE has the value Boolean(true), so it is false when SIMPLE is absent or not
\* a Boolean; and when the extraction fails, NAXIS, BITPIX or an NAXISi is the
\* cause: a missing or wrong-typed SIMPLE alone never makes it fail.
C18_SimpleNeverFails ==
  /\ Extracted => (ret.simple <=> (Has(arg, KEY_SIMPLE) /\ First(arg, KEY_SIMPLE) = Boolean(TRUE)))
  /\ Aborted => MandatoryTrouble(arg)
\* the fields were extracted, with simple false, from a list whose SIMPLE is a string
C18_Witness ==
  /\ Extracted
  /\ Has(arg, KEY_SIMPLE)
  /\ First(arg, KEY_SIMPLE).tag = "Str"
  /\ ret.simple = FALSE

\* the list from place k on, without the keywords whose name an earlier keyword of
\* the list has
RECURSIVE KeepFirst(_, _)
KeepFirst(list, k) ==
  IF k > Len(list) THEN <<>>
  ELSE (IF list[k].tag = "Value" /\ \E j \in 1..(k - 1) : j \in Named(list, list[k].kw)
        THEN <<>> ELSE <<list[k]>>) \o KeepFirst(list, k + 1)

\* C19: the fields come from the earliest keyword of exactly the name looked up
\* (SIMPLE, NAXIS, BITPIX, NAXISi): what extract_values gives, a failure included,
\* is what it gives for the list without the later keywords of a name already
\* seen, and each field extracted is the value of the first keyword whose name
\* equals the name in full.
C19_FirstMatchWins ==
  pc = "returned" =>
    /\ ret = extract_values(KeepFirst(arg, 1))
    /\ ret.tag = "Ok" =>
         /\ ret.simple <=> (Has(arg, KEY_SIMPLE) /\ First(arg, KEY_SIMPLE) = Boolean(TRUE))
         /\ Has(arg, KEY_NAXIS) /\ ret.naxis = First(arg, KEY_NAXIS).n
         /\ Has(arg, KEY_BITPIX) /\ ret.bitpix = First(arg, KEY_BITPIX).n
         /\ \A i \in 1..Len(ret.axes) :
              /\ Has(arg, KEY_NAXISn(i))
              /\ ret.axes[i] = as_usize(First(arg, KEY_NAXISn(i)).n)
\* the fields were extracted from a list that starts with a NAXIS keyword and has
\* a second one, of another value, later
C19_Witness ==
  /\ Extracted
  /\ SetMin(Named(arg, KEY_NAXIS)) = 1
  /\ SetMax(Named(arg, KEY_NAXIS)) > 1
  /\ arg[SetMax(Named(arg, KEY_NAXIS))].value.tag = "Integer"
  /\ arg[SetMax(Named(arg, KEY_NAXIS))].value # arg[1].value

\* C20: for a header with a valid BITPIX other than -64, decode returns the Header
\* and decodes no element, and what it returns in place of the data tells the
\* unsupported BITPIX apart from the no-data result of a header without axes: it is
\* neither a data buffer nor the plain absence of data.
C20_UnsupportedBitpixDistinct ==
  (Done /\ HeaderIs(LAMBDA h : h.bitpix # -64))
  => /\ result.tag = "Some"
     /\ result.header = hdr.h
     /\ data = <<>>
     /\ result.data.tag \notin {"None", "Some"}

\* the 8 bytes [8k, 8k+8) of the data unit, which starts at the block after the
\* End card's
ElementBytes(buf, k) == SubSeq(buf, DataStart(buf) + 8 * k + 1, DataStart(buf) + 8 * k + 8)

\* C21: for BITPIX = -64 the decoded buffer has, for every k below product(axes),
\* an element k that is the big-endian decoding of the bytes [8k, 8k+8) of the data
\* unit, in file order across the blocks, and has no element beyond: the bytes
\* after the expected count give none.
C21_ElementsInFileOrder ==
  (ReturnedData /\ HeaderIs(LAMBDA h : h.bitpix = -64))
  => /\ \A k \in 0..(product(result.header.axes) - 1) :
          /\ k < Len(result.data.v)
          /\ result.data.v[k + 1] = from_be_bytes(ElementBytes(buffer, k))
     /\ Len(result.data.v) <= product(result.header.axes)

\* the number of records before the first End card of the buffer
CardsBeforeEnd(buf) == SetMin(EndOffsets(buf)) \div HEADER_KEYWORD_SIZE

\* C22: the header scan stops at the first End card: it never holds more records
\* than the buffer has before that card and holds exactly those once it is over, it
\* has then read the blocks up to the End card's and no further, and the first
\* element decoded is made of the first bytes of the next block.
C22_ScanStopsAtEnd ==
  HasEnd(buffer) =>
    /\ Len(raw_header) <= CardsBeforeEnd(buffer)
    /\ pc \in {"header_block", "header_chunk"} => pos <= DataStart(buffer)
    /\ pc = "parse" => (pos = DataStart(buffer) /\ Len(raw_header) = CardsBeforeEnd(buffer))
    /\ (ReturnedData /\ result.data.v # <<>>) =>
         (/\ Len(result.header.keywords) <= CardsBeforeEnd(buffer)
          /\ result.data.v[1] = from_be_bytes(ElementBytes(buffer, 0)))
\* a decode went through for a buffer whose End card is the first record of the
\* second block and is followed there by a value card and a second End card
C22_Witness ==
  /\ ReturnedData
  /\ SetMin(EndOffsets(buffer)) = BLOCK_SIZE
  /\ BLOCK_SIZE + 2 * HEADER_KEYWORD_SIZE \in EndOffsets(buffer)
  /\ Len(result.data.v) = 2
  /\ pos = 3 * BLOCK_SIZE

\* the five kinds of failure
FailureKinds ==
  {"MalformedHeader", "InvalidMandatoryKeyword", "UnsupportedBitpix", "TruncatedData",
   "UnsupportedLiteral"}

\* C23: decode ends either with a Header and its optional data or with one of the
\* five kinds of failure, never with an abort; and a result with a data buffer has
\* all the elements the Header declares, so that a failure is not passed off as a
\* Header/Data pair.
C23_StructuredOutcome ==
  Done =>
    /\ result.tag \in {"Some"} \cup FailureKinds
    /\ ReturnedData => Len(result.data.v) = product(result.header.axes)

\* s without its leading and trailing spaces
TrimSpaces(s) ==
  LET ns == {i \in 1..Len(s) : s[i] # SPACE}
  IN IF ns = {} THEN <<>> ELSE SubSeq(s, SetMin(ns), SetMax(ns))
NameField(rec) == SubSeq(rec, 1, HEADER_KEYWORD_NAME_SIZE)
AfterName(rec) == SubSeq(rec, HEADER_KEYWORD_NAME_SIZE + 1, Len(rec))
AfterIndicator(rec) ==
  SubSeq(rec, HEADER_KEYWORD_NAME_SIZE + HEADER_VALUE_INDICATOR_SIZE + 1, Len(rec))

\* C24: for a record with the indicator that is read as a Value card, the name is
\* the first 8 bytes and the raw value the bytes after the indicator, both without
\* their leading and trailing spaces and otherwise as they are; for a record read
\* as a COMMENT the text is the bytes after the name field, trimmed the same way.
C24_FieldsTrimmed ==
  pc = "returned" =>
    /\ (ret.tag = "RawValue" /\ IndicatorOf(arg) = HEADER_VALUE_INDICATOR) =>
         (/\ ret.kw = TrimSpaces(NameField(arg))
          /\ ret.value = TrimSpaces(AfterIndicator(arg)))
    /\ ret.tag = "Comment" => ret.value = TrimSpaces(AfterName(arg))

\* C25: for every trimmed value field that is left to the numeric rules (it is not
\* empty and does not start with '/', a quote, T or F) Value::from_str returns a
\* Value; it does not abort when the token is no number.
C25_ParserTotal ==
  (/\ pc = "returned"
   /\ arg # <<>>
   /\ arg[1] \notin {SLASH, QUOTE, CHAR_T, CHAR_F})
  => ret.tag \in {"Undefined", "Integer", "Str", "Float", "Boolean"}

\* a card whose value field is a string, and that string
IsStrCard(chunk) == chunk.tag = "RawValue" /\ from_str(chunk.value).tag = "Str"
CardStr(chunk) == from_str(chunk.value).s
EndsAmp(t) == t # <<>> /\ t[Len(t)] = AMP
Front(t) == SubSeq(t, 1, Len(t) - 1)

\* what the last Keyword is once the first k cards are processed, read off the
\* cards: whether it is a string keyword, and its string
RECURSIVE LastStr(_, _)
LastStr(raw, k) ==
  IF k = 0 THEN [str |-> FALSE, s |-> <<>>]
  ELSE IF IsContinuation(raw[k])
       THEN LET prev == LastStr(raw, k - 1)
            IN IF prev.str /\ EndsAmp(prev.s)
               THEN [str |-> TRUE, s |-> Front(prev.s) \o CardStr(raw[k])]
               ELSE [str |-> FALSE, s |-> <<>>]
  ELSE IF IsStrCard(raw[k]) THEN [str |-> TRUE, s |-> CardStr(raw[k])]
  ELSE [str |-> FALSE, s |-> <<>>]
\* card k is a continuation card that is merged into the Keyword before it
Merged(raw, k) ==
  /\ IsContinuation(raw[k])
  /\ LastStr(raw, k - 1).str
  /\ EndsAmp(LastStr(raw, k - 1).s)
\* the place in the keyword list of the Keyword that card k starts or is merged into
Place(raw, k) == k - Cardinality({m \in 1..k : Merged(raw, m)})

\* cards j..j+n: a string keyword ending in '&', then n continuation cards whose
\* strings end in '&' but for the last, which may or may not
IsRun(raw, j, n) ==
  /\ IsStrCard(raw[j]) /\ ~IsContinuation(raw[j]) /\ EndsAmp(CardStr(raw[j]))
  /\ \A m \in (j + 1)..(j + n) : IsContinuation(raw[m])
  /\ \A m \in (j + 1)..(j + n - 1) : EndsAmp(CardStr(raw[m]))
\* the n+1 strings of the run put together, the '&' of all but the last removed
RunStr(raw, j, n) ==
  Concat([m \in 1..n |-> Front(CardStr(raw[j + m - 1]))]) \o CardStr(raw[j + n])

\* C26: once the last of the n+1 cards of such a run (n >= 1) is processed, the
\* cards of the run have given one Keyword, the last of the list: it has the name
\* of the first card and the strings of all the cards put together without the
\* intermediate '&', it is no Continue-kind Keyword, and the list has as many
\* Keywords as the cards before the run gave, and one.
C26_ChainMerged ==
  pc = "parse" =>
    \A j \in 1..(pi - 2) :
      LET n == pi - 1 - j
      IN IsRun(raw_header, j, n) =>
           /\ Len(header) = 1 + (IF j = 1 THEN 0 ELSE Place(raw_header, j - 1))
           /\ header[Len(header)].tag = "Value"
           /\ header[Len(header)].kw = raw_header[j].kw
           /\ header[Len(header)].value = Str(RunStr(raw_header, j, n))
\* OBJECT = 'abc&', CONTINUE 'gh&', CONTINUE 'def' have given the one Keyword
\* OBJECT = "abcghdef"
C26_Witness ==
  /\ pc = "parse"
  /\ pi = 4
  /\ IsRun(raw_header, 1, 2)
  /\ header = <<KwValue(KEY_OBJECT, Str(<<97, 98, 99, 103, 104, 100, 101, 102>>), <<>>)>>

\* the Keyword kw is the one card number k of raw gives: a text Keyword for a
\* COMMENT or HISTORY card, a Continue-kind Keyword for a continuation card, and
\* for any other card a Value Keyword of the card's name, with the card's value
\* unless the next card was merged into it
KeywordOf(raw, k, done, kw) ==
  CASE raw[k].tag = "Comment" -> kw = KwComment(raw[k].value)
    [] raw[k].tag = "History" -> kw = KwHistory(raw[k].value)
    [] OTHER ->
         IF IsContinuation(raw[k])
         THEN kw.tag = "Continue" /\ kw.value = from_str(raw[k].value)
         ELSE /\ kw.tag = "Value"
              /\ kw.kw = raw[k].kw
              /\ (k < done /\ Merged(raw, k + 1)) \/ kw.value = from_str(raw[k].value)

\* C27: after any number of cards is processed, the keyword list has one Keyword
\* for each card but the merged continuation cards, and in the order of the cards:
\* its length is the number of cards processed less the number of merges, and the
\* Keyword of card k stands at k less the number of merges up to k.
C27_OrderKept ==
  pc = "parse" =>
    LET done == pi - 1
    IN /\ Len(header) = done - Cardinality({m \in 1..done : Merged(raw_header, m)})
       /\ \A k \in 1..done :
            ~Merged(raw_header, k) =>
              /\ Place(raw_header, k) \in 1..Len(header)
              /\ KeywordOf(raw_header, k, done, header[Place(raw_header, k)])
\* all the cards of a header that starts with a comment, a string keyword and a
\* continuation card merged into it are processed
C27_Witness ==
  /\ pc = "parse"
  /\ pi = Len(raw_header) + 1
  /\ Len(raw_header) >= 3
  /\ raw_header[1].tag = "Comment"
  /\ Merged(raw_header, 3)
  /\ Len(header) = Len(raw_header) - 1
  /\ header[1].tag = "Comment"
  /\ header[3].tag = "Value" /\ header[3].kw = KEY_SIMPLE

\* C28: decode ends on every buffer.  Each turn of the header scan that takes a
\* block moves on in the buffer, so that no block is read twice, and each turn of
\* the data loop takes a block and takes between 1 and 2880 off the bytes that
\* remain; the loops end at the End card, at zero, or when the blocks run out.
C28_Terminates ==
  /\ <>Done
  /\ [][(pc = "header_block" /\ pc' = "header_chunk") => pos' > pos]_vars
  /\ [][(pc = "data" /\ pc' = "data") =>
          (pos' > pos /\ rem - rem' \in 1..BLOCK_SIZE /\ rem' >= 0)]_vars
\* decode is over after two turns of the data loop, the second of which took the
\* last 8 bytes off
C28_Witness ==
  /\ ReturnedData
  /\ Len(result.data.v) = BLOCK_SIZE \div 8 + 1
  /\ rem = 0
  /\ pos = DataStart(buffer) + 2 * BLOCK_SIZE

====
